---- MODULE Spec2Model ----
(***************************************************************************)
(* The OAuth2 token lifecycle and authenticated-request pipeline of the    *)
(* Withings/Nokia Health client.                                           *)
(*                                                                         *)
(* The repository holds two User implementations:                          *)
(*   impl = "oauth" : the User that holds OauthToken  (unnamed/part_003)   *)
(*   impl = "reuse" : the User that holds RefreshToken and token           *)
(*                    (unnamed/part_004, built also by NewUserFromAuthCode *)
(*                    in unnamed/part_000)                                 *)
(* One session (User) is modelled, used by the goroutines of Procs.  Every *)
(* action is one stretch of code between two network suspension points.   *)
(* Time is counted in seconds.                                             *)
(***************************************************************************)
EXTENDS Integers, Sequences, FiniteSets, TLC

\* ---------------------------------------------------------------- bounds
MaxTime == 3      \* the clock stops here
MaxIssued == 2     \* token exchanges the token endpoint answers successfully
MaxProfiles == 2   \* profiles in a notification list
ShortLife == 1     \* expires_in of a short-lived token
LongLife == 11     \* expires_in of a long-lived token (beyond expiryDelta)

\* ------------------------------------------------------- program constants
HttpOK == 200
expiryDelta == 10
ZeroTime == -1

Procs == {"g1", "g2"}
Impls == {"oauth", "reuse"}
ExpiresInSet == {ShortLife, LongLife}

\* Strings of the program are pairs <<origin, serial>>.
EmptyStr == <<"empty", 0>>
CallerAT == <<"caller-at", 0>>
CallerRT == <<"caller-rt", 0>>
SrvAT(k) == <<"at", k>>
SrvRT(k) == <<"rt", k>>
BearerType == <<"Bearer", 0>>

\* An oauth2.Token; the zero value stands for a nil *oauth2.Token as well
\* (oauth2's Valid() treats both alike).
Tok(a, r, e) == [access |-> a, refresh |-> r, expiry |-> e, type |-> EmptyStr]
NilTok == Tok(EmptyStr, EmptyStr, ZeroTime)

VARIABLES
    pure,          \* a function applied on its own: inputs and result
    impl,          \* which User implementation the session is
    now,           \* time.Now()
    issued,        \* number of tokens the token endpoint has issued
    ustate,        \* "none" | "constructing" | "ready" | "failed"
    ctor,          \* constructor record (kind, inputs, in-flight request)
    OauthToken,    \* part_003: User.OauthToken
    RefreshToken,  \* part_004: User.RefreshToken
    token,         \* part_004: User.token
    pc,            \* per goroutine: "idle" | "refreshing" | "requesting" | "done"
    kind,          \* per goroutine: "send" (User.RoundTrip) | "token" (User.TokenContext)
    ctxCancelled,  \* per goroutine: the caller's context is done
    sentRT,        \* per goroutine: refresh_token form value of the request in flight
    bearer,        \* per goroutine: token attached to the data request
    result,        \* per goroutine: "none" | "ok" | "err"
    hist,          \* per goroutine: observations of the operation in progress
    srvLastRT,     \* refresh token of the latest successful exchange of the session
    lastRefreshed  \* token of the latest successful refresh, if a Send made it

session == <<OauthToken, RefreshToken, token>>
procVars == <<pc, kind, ctxCancelled, sentRT, bearer, result, hist>>
machine == <<impl, now, issued, ustate, ctor, OauthToken, RefreshToken, token,
             pc, kind, ctxCancelled, sentRT, bearer, result, hist, srvLastRT,
             lastRefreshed>>
vars == <<pure, impl, now, issued, ustate, ctor, OauthToken, RefreshToken, token,
          pc, kind, ctxCancelled, sentRT, bearer, result, hist, srvLastRT,
          lastRefreshed>>

\* ------------------------------------------------------------ pure parts

\* After with the comparison made non-strict.
After_NonStrict(t, u) == t >= u

\* time.Time.After
After(t, u) == t > u

\* oauth2.Token.Valid, as used by the reuseTokenSource that part_004's
\* RoundTrip builds around u.token: non-empty access token and not expired,
\* where a zero Expiry never expires and expiry is taken expiryDelta early.
Expired(t, n) == IF t.expiry = ZeroTime THEN FALSE ELSE t.expiry - expiryDelta < n
Valid(t, n) == t.access # EmptyStr /\ ~Expired(t, n)

\* What the network hands back for one HTTP exchange.
Raw(ne, c, rd, js, st, inn, tr) ==
    [neterr |-> ne, code |-> c, readable |-> rd, json |-> js, status |-> st,
     inner |-> inn, tok |-> tr]
TokResp(a, r, e) ==
    [access |-> a, refresh |-> r, expires_in |-> e, token_type |-> BearerType]
NoTokResp == [TokResp(EmptyStr, EmptyStr, 0) EXCEPT !.token_type = EmptyStr]
NetErrRaw == Raw(TRUE, 0, FALSE, FALSE, 0, "bad", NoTokResp)
FailRaws ==
    { NetErrRaw,
      Raw(FALSE, 500, TRUE, FALSE, 0, "bad", NoTokResp),       \* non-200
      Raw(FALSE, HttpOK, FALSE, FALSE, 0, "bad", NoTokResp),   \* body read fails
      Raw(FALSE, HttpOK, TRUE, FALSE, 0, "bad", NoTokResp),    \* malformed envelope
      Raw(FALSE, HttpOK, TRUE, TRUE, 401, "ok", NoTokResp),    \* envelope status != 0
      Raw(FALSE, HttpOK, TRUE, TRUE, 0, "bad", NoTokResp) }    \* malformed inner body
\* The answers of a token endpoint that has issued k tokens so far.
OkRaws(k) ==
    { Raw(FALSE, HttpOK, TRUE, TRUE, 0, "ok", TokResp(SrvAT(k + 1), SrvRT(k + 1), e)) :
        e \in ExpiresInSet }
TokenRaws(k) == FailRaws \cup (IF k < MaxIssued THEN OkRaws(k) ELSE {})

\* The bytes of a response body: the envelope as the server sent it, or the
\* envelope's inner body field alone.
RawBody(raw) ==
    [form |-> "envelope", readable |-> raw.readable, json |-> raw.json,
     status |-> raw.status, inner |-> raw.inner, tok |-> raw.tok]
InnerBody(raw) ==
    [form |-> "inner", readable |-> TRUE, json |-> (raw.inner = "ok"),
     status |-> 0, inner |-> raw.inner, tok |-> raw.tok]
NoBody ==
    [form |-> "none", readable |-> FALSE, json |-> FALSE, status |-> 0,
     inner |-> "bad", tok |-> NoTokResp]

\* What a RoundTripper returns: a response (code, body) or an error, with
\* the status code and body text the error's message quotes.
Resp(c, b) == [err |-> "none", code |-> c, body |-> b, errcode |-> 0, errbody |-> NoBody]
RespErr(e, ec, eb) == [err |-> e, code |-> 0, body |-> NoBody, errcode |-> ec, errbody |-> eb]

\* WithingsRoundTripper.RoundTrip without its check of the envelope status.
WRoundTrip_NoStatusCheck(raw) ==
    IF raw.neterr THEN RespErr("transport", 0, NoBody)
    ELSE IF raw.code # HttpOK THEN Resp(raw.code, RawBody(raw))
    ELSE IF ~raw.readable THEN RespErr("read", 0, NoBody)
    ELSE IF ~raw.json THEN RespErr("decode", 0, RawBody(raw))
    ELSE Resp(raw.code, InnerBody(raw))

\* WithingsRoundTripper.RoundTrip that hands the envelope on as it came.
WRoundTrip_NoUnwrap(raw) ==
    IF raw.neterr THEN RespErr("transport", 0, NoBody)
    ELSE IF raw.code # HttpOK THEN Resp(raw.code, RawBody(raw))
    ELSE IF ~raw.readable THEN RespErr("read", 0, NoBody)
    ELSE IF ~raw.json THEN RespErr("decode", 0, RawBody(raw))
    ELSE IF raw.status # 0 THEN RespErr("status", raw.status, RawBody(raw))
    ELSE Resp(raw.code, RawBody(raw))

\* WithingsRoundTripper.RoundTrip
WRoundTrip(raw) ==
    IF raw.neterr THEN RespErr("transport", 0, NoBody)
    ELSE IF raw.code # HttpOK THEN Resp(raw.code, RawBody(raw))
    ELSE IF ~raw.readable THEN RespErr("read", 0, NoBody)
    ELSE IF ~raw.json THEN RespErr("decode", 0, RawBody(raw))
    ELSE IF raw.status # 0 THEN RespErr("status", raw.status, RawBody(raw))
    ELSE Resp(raw.code, InnerBody(raw))

\* The outcome of a token exchange: a token, or an error with the HTTP
\* status code and body text its message quotes.
Exchanged(t) == [ok |-> TRUE, tok |-> t, err |-> "none", errcode |-> 0, errbody |-> NoBody]
ExchangeErr(e, ec, eb) == [ok |-> FALSE, tok |-> NilTok, err |-> e, errcode |-> ec, errbody |-> eb]

\* TokenOf with expires_in taken as the expiry itself.
TokenOf_NoNow(tr, n) == [Tok(tr.access, tr.refresh, tr.expires_in) EXCEPT !.type = tr.token_type]

\* The oauth2.Token built from a decoded token response at time n.
TokenOf(tr, n) == [Tok(tr.access, tr.refresh, n + tr.expires_in) EXCEPT !.type = tr.token_type]

\* The token exchange with the error of decoding the inner body ignored.
TokenExchange_NoInnerCheck(raw, n) ==
    IF raw.neterr \/ raw.code # HttpOK \/ ~raw.readable \/ ~raw.json \/ raw.status # 0
    THEN ExchangeErr("sending", 0, NoBody)
    ELSE Exchanged(TokenOf(raw.tok, n))

\* The token exchange without its check of the HTTP status.
TokenExchange_NoHttpCheck(raw, n) ==
    LET res == WRoundTrip(raw) IN
    IF res.err # "none" THEN ExchangeErr("sending", res.errcode, res.errbody)
    ELSE IF ~res.body.json \/ res.body.inner # "ok" THEN ExchangeErr("decoding", 0, NoBody)
    ELSE Exchanged(TokenOf(res.body.tok, n))

\* The token exchange shared by GenerateAccessToken and both TokenContexts,
\* from the RoundTrip call to the construction of the oauth2.Token.
TokenExchange(raw, n) ==
    LET res == WRoundTrip(raw) IN
    IF res.err # "none" THEN ExchangeErr("sending", res.errcode, res.errbody)
    ELSE IF res.code # HttpOK
        THEN ExchangeErr("non-2XX", res.code,
                         IF res.body.readable THEN res.body ELSE NoBody)
    ELSE IF ~res.body.readable THEN ExchangeErr("reading", 0, NoBody)
    ELSE IF ~res.body.json THEN ExchangeErr("decoding", 0, NoBody)
    ELSE Exchanged(TokenOf(res.body.tok, n))

\* status.OperationWasSuccessful
OperationWasSuccessful == 0

\* The endpoint methods of User.
Endpoints ==
    { "GetBodyMeasures", "GetActivityMeasures", "GetIntradayActivity",
      "GetWorkouts", "GetSleepMeasures", "GetSleepSummary",
      "CreateNotification", "GetNotificationInformation",
      "RevokeNotification", "ListNotifications" }

\* The endpoint methods the goroutines of a session call: one of each of
\* the two ways the methods treat a failed read of the response body.
SendEndpoints == {"GetWorkouts", "GetIntradayActivity"}

\* The answers of a data endpoint.
GoodDataRaw == Raw(FALSE, HttpOK, TRUE, TRUE, 0, "ok", NoTokResp)
DataRaws == FailRaws \cup {GoodDataRaw}

\* The base transport of the client oauth2.NewClient builds from a context
\* without an oauth2.HTTPClient value: http.DefaultTransport.
BaseRoundTrip(raw) ==
    IF raw.neterr THEN RespErr("transport", 0, NoBody)
    ELSE Resp(raw.code, RawBody(raw))

\* User.RoundTrip with the response unwrapped by WithingsRoundTripper.
UserRoundTrip_Unwrapping(raw) == WRoundTrip(raw)

\* User.RoundTrip, once the token source has returned the token to attach.
UserRoundTrip(raw) == BaseRoundTrip(raw)

\* What an endpoint method returns: its error and the Status of its response.
Returned(e, st) == [err |-> e, Status |-> st]

\* An endpoint method without its check of the decoded Status.
EndpointMethod_NoStatusCheck(ep, res) ==
    IF res.err # "none" THEN Returned("send", 0)
    ELSE IF ~res.body.readable
        THEN (IF ep = "GetWorkouts" THEN Returned("none", 0) ELSE Returned("read", 0))
    ELSE IF ~res.body.json \/ res.body.inner # "ok" THEN Returned("decode", 0)
    ELSE Returned("none", res.body.status)

\* An endpoint method, from the return of u.HTTPClient.Do to its own return.
EndpointMethod(ep, res) ==
    IF res.err # "none" THEN Returned("send", 0)
    ELSE IF ~res.body.readable
        THEN (IF ep = "GetWorkouts" THEN Returned("none", 0) ELSE Returned("read", 0))
    ELSE IF ~res.body.json \/ res.body.inner # "ok" THEN Returned("decode", 0)
    ELSE IF res.body.status # OperationWasSuccessful
        THEN Returned("status", res.body.status)
    ELSE Returned("none", res.body.status)

\* ------------------------------------------------------ session accessors

StoredToken == IF impl = "oauth" THEN OauthToken ELSE token
StoredRT == IF impl = "oauth" THEN OauthToken.refresh ELSE RefreshToken

\* The token source with the expiry test of part_003 inverted.
NeedsRefresh_Inverted(k) ==
    IF impl = "oauth" THEN After(OauthToken.expiry, now)
    ELSE IF k = "send" THEN ~Valid(token, now)
    ELSE TRUE

\* The token source with part_004's RoundTrip not reusing u.token.
NeedsRefresh_NoReuse(k) ==
    IF impl = "oauth" THEN ~After(OauthToken.expiry, now) ELSE TRUE

\* Whether the token source refreshes.  part_003: TokenContext's own check,
\* reached by Send and by Token alike.  part_004: Send asks the
\* reuseTokenSource around u.token; TokenContext itself always refreshes.
NeedsRefresh(k) ==
    IF impl = "oauth" THEN ~After(OauthToken.expiry, now)
    ELSE IF k = "send" THEN ~Valid(token, now)
    ELSE TRUE

\* The context the refresh request carries: a Send reaches TokenContext
\* through User.Token(), which passes context.Background().
RefreshCtx(k) == IF k = "send" THEN "background" ELSE "caller"

\* part_004's TokenContext without the assignment to u.RefreshToken.
StoreRefreshToken_Keep(tok) == RefreshToken

\* The session's fields after TokenContext succeeded with tok.
StoreOauthToken(tok) == IF impl = "oauth" THEN tok ELSE OauthToken
StoreRefreshToken(tok) == IF impl = "reuse" THEN tok.refresh ELSE RefreshToken
StoreToken(tok) == token

\* ------------------------------------------------------------------ Init

NoCtor == [kind |-> "none", expiry |-> ZeroTime, time |-> 0, calls |-> 0,
           sentRT |-> EmptyStr, user |-> FALSE, err |-> FALSE]
IdleHist == [log |-> <<>>, expiredAtStart |-> FALSE, farAtStart |-> FALSE,
             freshAtStart |-> FALSE, rtAtStart |-> EmptyStr, outcome |-> "none",
             resp |-> "none", attachTime |-> 0, cancelledInRefresh |-> FALSE,
             answered |-> FALSE, data |-> NetErrRaw,
             rtErr |-> "none", epErr |-> "none", Status |-> 0]

\* What has been done to the body stream of the response the network gave:
\* how many times it was read to its end, and whether it was closed.
BodyUse(r, c) == [reads |-> r, closed |-> c]

\* WithingsRoundTripper.RoundTrip without its deferred Close.
WBodyUse_NoClose(raw) ==
    IF raw.neterr THEN BodyUse(0, FALSE)
    ELSE IF raw.code # HttpOK THEN BodyUse(0, FALSE)
    ELSE BodyUse(1, FALSE)

\* The use WithingsRoundTripper.RoundTrip makes of the original body: none
\* when Do fails or the status is not 200 (it returns before the deferred
\* Close is set up); otherwise one ReadAll, and Close when it returns.
WBodyUse(raw) ==
    IF raw.neterr THEN BodyUse(0, FALSE)
    ELSE IF raw.code # HttpOK THEN BodyUse(0, FALSE)
    ELSE BodyUse(1, TRUE)

\* The use of the original body by the end of a token exchange: after
\* RoundTrip, the caller defers res.Body.Close() and, on a non-200 status,
\* reads res.Body, which is then still the original body.
ExchangeBodyUse(raw) ==
    LET u == WBodyUse(raw)
        res == WRoundTrip(raw)
    IN  IF res.err # "none" THEN u
        ELSE IF res.code # HttpOK THEN BodyUse(u.reads + 1, TRUE)
        ELSE u

\* No function is being applied on its own.
NoPure ==
    [op |-> "none", raw |-> NetErrRaw, n |-> 0, ep |-> "none",
     resp |-> RespErr("none", 0, NoBody), exch |-> ExchangeErr("none", 0, NoBody),
     ret |-> Returned("none", 0), startdate |-> 0, enddate |-> 0,
     use |-> BodyUse(0, FALSE),
     params |-> [StartDate |-> {}, EndDate |-> {}, LastUpdate |-> {}],
     query |-> [StartDate |-> {}, EndDate |-> {}, LastUpdate |-> {}],
     panic |-> FALSE, profiles |-> <<>>, parsed |-> <<>>]

\* The session and its goroutines before any constructor has run.
MachineInit ==
    /\ impl \in Impls
    /\ now = 0
    /\ issued = 0
    /\ ustate = "none"
    /\ ctor = NoCtor
    /\ OauthToken = NilTok
    /\ RefreshToken = EmptyStr
    /\ token = NilTok
    /\ pc = [p \in Procs |-> "idle"]
    /\ kind = [p \in Procs |-> "send"]
    /\ ctxCancelled = [p \in Procs |-> FALSE]
    /\ sentRT = [p \in Procs |-> EmptyStr]
    /\ bearer = [p \in Procs |-> NilTok]
    /\ result = [p \in Procs |-> "none"]
    /\ hist = [p \in Procs |-> IdleHist]
    /\ srvLastRT = CallerRT
    /\ lastRefreshed = NilTok

Init ==
    /\ pure = NoPure
    /\ MachineInit

\* ---------------------------------------------------------- constructors

\* NewUserFromRefreshToken of part_003 (lines 51-61) and of part_004
\* (lines 27-35), up to the token request that TokenContext sends: the fresh
\* user holds only the refresh token; part_003's zero Expiry is not After(now).
NewUserFromRefreshToken ==
    /\ ustate = "none"
    /\ OauthToken' = IF impl = "oauth" THEN Tok(EmptyStr, CallerRT, ZeroTime) ELSE OauthToken
    /\ RefreshToken' = IF impl = "reuse" THEN CallerRT ELSE RefreshToken
    /\ ctor' = [kind |-> "refresh", expiry |-> ZeroTime, time |-> now, calls |-> 1,
                sentRT |-> CallerRT, user |-> FALSE, err |-> FALSE]
    /\ ustate' = "constructing"
    /\ UNCHANGED <<pure, impl, now, issued, token, procVars, srvLastRT, lastRefreshed>>

\* Whether NewUserFromAccessToken hands over to NewUserFromRefreshToken
\* (part_003 line 40).
AccessTokenCtorRefreshes(e, n) == After(e, n)

\* NewUserFromAccessToken (part_003 lines 28-45) with tokenExpiry = e.
NewUserFromAccessToken(e) ==
    /\ ustate = "none"
    /\ impl = "oauth"
    /\ IF AccessTokenCtorRefreshes(e, now)
       THEN /\ OauthToken' = Tok(EmptyStr, CallerRT, ZeroTime)
            /\ ctor' = [kind |-> "access", expiry |-> e, time |-> now, calls |-> 1,
                        sentRT |-> CallerRT, user |-> FALSE, err |-> FALSE]
            /\ ustate' = "constructing"
       ELSE /\ OauthToken' = Tok(CallerAT, CallerRT, e)
            /\ ctor' = [kind |-> "access", expiry |-> e, time |-> now, calls |-> 0,
                        sentRT |-> EmptyStr, user |-> TRUE, err |-> FALSE]
            /\ ustate' = "ready"
    /\ UNCHANGED <<pure, impl, now, issued, RefreshToken, token, procVars, srvLastRT,
                   lastRefreshed>>

\* NewUserFromAuthCode (part_000 lines 219-225), up to the token request of
\* GenerateAccessToken; it builds the User of part_004.
NewUserFromAuthCode ==
    /\ ustate = "none"
    /\ impl = "reuse"
    /\ ctor' = [kind |-> "authcode", expiry |-> ZeroTime, time |-> now, calls |-> 1,
                sentRT |-> EmptyStr, user |-> FALSE, err |-> FALSE]
    /\ ustate' = "constructing"
    /\ UNCHANGED <<pure, impl, now, issued, session, procVars, srvLastRT, lastRefreshed>>

\* A constructor that returns its user along with the error.
CtorReturn_UserOnError(x) == [user |-> TRUE, err |-> ~x.ok]

\* What a constructor returns after its token exchange x: (nil, error) when
\* the exchange failed, (u, nil) otherwise.
CtorReturn(x) == [user |-> x.ok, err |-> ~x.ok]

\* The token endpoint answers the constructor's exchange: the rest of
\* TokenContext / GenerateAccessToken and of the constructor.
CtorRespond(raw) ==
    /\ ustate = "constructing"
    /\ LET x == TokenExchange(raw, now) IN
       /\ ctor' = [ctor EXCEPT !.user = CtorReturn(x).user, !.err = CtorReturn(x).err]
       /\ IF x.ok
          THEN /\ ustate' = "ready"
               /\ issued' = issued + 1
               /\ srvLastRT' = raw.tok.refresh
               /\ OauthToken' = StoreOauthToken(x.tok)
               /\ RefreshToken' = StoreRefreshToken(x.tok)
               /\ token' = IF impl = "reuse" THEN x.tok ELSE token
          ELSE /\ ustate' = "failed"
               /\ UNCHANGED <<issued, srvLastRT, session>>
    /\ UNCHANGED <<pure, impl, now, procVars, lastRefreshed>>

\* ------------------------------------------------------------ operations

\* An operation that has finished returns to its caller before anything
\* else happens: returning touches nothing the goroutines share.
Quiet == \A q \in Procs : pc[q] # "done"

\* IssueData with the data request issued a second time.
IssueData_Retrying(p, tok, h) ==
    /\ bearer' = [bearer EXCEPT ![p] = tok]
    /\ IF ctxCancelled[p]
       THEN /\ pc' = [pc EXCEPT ![p] = "done"]
            /\ result' = [result EXCEPT ![p] = "err"]
            /\ hist' = [hist EXCEPT ![p] = [h EXCEPT !.attachTime = now]]
       ELSE /\ pc' = [pc EXCEPT ![p] = "requesting"]
            /\ result' = result
            /\ hist' = [hist EXCEPT ![p] =
                          [h EXCEPT !.attachTime = now,
                                    !.log = Append(Append(h.log, "data-call"),
                                                     "data-call")]]

\* oauth2.Transport.RoundTrip after the token source returned tok: the
\* token is set as the Authorization header of the cloned request and the
\* request handed to the base transport, which sends nothing when the
\* request's context is already done.  h is the goroutine's history so far.
IssueData(p, tok, h) ==
    /\ bearer' = [bearer EXCEPT ![p] = tok]
    /\ IF ctxCancelled[p]
       THEN /\ pc' = [pc EXCEPT ![p] = "done"]
            /\ result' = [result EXCEPT ![p] = "err"]
            /\ hist' = [hist EXCEPT ![p] = [h EXCEPT !.attachTime = now]]
       ELSE /\ pc' = [pc EXCEPT ![p] = "requesting"]
            /\ result' = result
            /\ hist' = [hist EXCEPT ![p] =
                          [h EXCEPT !.attachTime = now,
                                    !.log = Append(h.log, "data-call")]]

\* A goroutine calls an endpoint method (k = "send": HTTPClient.Do ->
\* User.RoundTrip -> token source) or User.TokenContext(ctx) (k = "token"),
\* up to the first network call.
Begin(p, k) ==
    /\ Quiet
    /\ ustate = "ready"
    /\ pc[p] = "idle"
    /\ kind' = [kind EXCEPT ![p] = k]
    /\ LET h == [IdleHist EXCEPT
                   !.expiredAtStart = (StoredToken.expiry <= now),
                   !.farAtStart = (StoredToken.expiry >= now + expiryDelta),
                   !.freshAtStart = (lastRefreshed # NilTok
                                      /\ lastRefreshed.expiry >= now + expiryDelta),
                   !.rtAtStart = srvLastRT]
       IN
       IF NeedsRefresh(k)
       THEN /\ pc' = [pc EXCEPT ![p] = "refreshing"]
            /\ sentRT' = [sentRT EXCEPT ![p] = StoredRT]
            /\ hist' = [hist EXCEPT ![p] = [h EXCEPT !.log = <<"refresh-call">>]]
            /\ UNCHANGED <<bearer, result>>
       ELSE IF k = "send"
       THEN /\ IssueData(p, StoredToken, h)
            /\ UNCHANGED sentRT
       ELSE /\ pc' = [pc EXCEPT ![p] = "done"]
            /\ result' = [result EXCEPT ![p] = "ok"]
            /\ hist' = [hist EXCEPT ![p] = h]
            /\ UNCHANGED <<sentRT, bearer>>
    /\ UNCHANGED <<pure, impl, now, issued, ustate, ctor, session, ctxCancelled,
                   srvLastRT, lastRefreshed>>

\* The token endpoint answers the refresh of goroutine p: the rest of
\* TokenContext and, for a Send, of oauth2.Transport.RoundTrip.
RefreshRespond(p, raw) ==
    /\ Quiet
    /\ pc[p] = "refreshing"
    /\ ~(RefreshCtx(kind[p]) = "caller" /\ ctxCancelled[p])
    /\ LET x == TokenExchange(raw, now)
           h == [hist[p] EXCEPT !.log = Append(@, "refresh-return"),
                                !.outcome = IF x.ok THEN "ok" ELSE "fail",
                                !.resp = IF raw \in FailRaws THEN "bad" ELSE "good"]
       IN
       IF x.ok
       THEN /\ issued' = issued + 1
            /\ srvLastRT' = raw.tok.refresh
            /\ OauthToken' = StoreOauthToken(x.tok)
            /\ RefreshToken' = StoreRefreshToken(x.tok)
            /\ token' = StoreToken(x.tok)
            /\ IF kind[p] = "send"
               THEN /\ lastRefreshed' = x.tok
                    /\ IssueData(p, x.tok, h)
               ELSE /\ lastRefreshed' = NilTok
                    /\ pc' = [pc EXCEPT ![p] = "done"]
                    /\ result' = [result EXCEPT ![p] = "ok"]
                    /\ hist' = [hist EXCEPT ![p] = h]
                    /\ UNCHANGED bearer
       ELSE /\ pc' = [pc EXCEPT ![p] = "done"]
            /\ result' = [result EXCEPT ![p] = "err"]
            /\ hist' = [hist EXCEPT ![p] = h]
            /\ UNCHANGED <<issued, srvLastRT, session, bearer, lastRefreshed>>
    /\ UNCHANGED <<pure, impl, now, ustate, ctor, kind, ctxCancelled, sentRT>>

\* The caller's context is cancelled or times out (Client.getContext's
\* Timeout for the non-Ctx endpoint methods) while the operation is blocked.
Cancel(p) ==
    /\ Quiet
    /\ pc[p] \in {"refreshing", "requesting"}
    /\ ~ctxCancelled[p]
    /\ ctxCancelled' = [ctxCancelled EXCEPT ![p] = TRUE]
    /\ hist' = [hist EXCEPT ![p].cancelledInRefresh = (pc[p] = "refreshing")]
    /\ UNCHANGED <<pure, impl, now, issued, ustate, ctor, session, pc, kind, sentRT,
                   bearer, result, srvLastRT, lastRefreshed>>

\* A refresh request that carries the cancelled context returns the
\* context's error from RoundTrip; TokenContext returns it.
RefreshAbort(p) ==
    /\ Quiet
    /\ pc[p] = "refreshing"
    /\ RefreshCtx(kind[p]) = "caller"
    /\ ctxCancelled[p]
    /\ ~TokenExchange(NetErrRaw, now).ok
    /\ pc' = [pc EXCEPT ![p] = "done"]
    /\ result' = [result EXCEPT ![p] = "err"]
    /\ hist' = [hist EXCEPT ![p].outcome = "aborted"]
    /\ UNCHANGED <<pure, impl, now, issued, ustate, ctor, session, kind, ctxCancelled,
                   sentRT, bearer, srvLastRT, lastRefreshed>>

\* AfterEndpoint with the token dropped when the API reports an error.
AfterEndpoint_DropOnError(tok, out) == IF out.err = "status" THEN NilTok ELSE tok

\* A token field of the User once an endpoint method has returned out: the
\* methods read the User's Client and HTTPClient and assign none of its fields.
AfterEndpoint(tok, out) == tok

\* The data endpoint answers the request of endpoint method ep: the rest
\* of User.RoundTrip and of the endpoint method.
DataRespond(p, ep, raw) ==
    /\ Quiet
    /\ pc[p] = "requesting"
    /\ ~ctxCancelled[p]
    /\ pc' = [pc EXCEPT ![p] = "done"]
    /\ LET res == UserRoundTrip(raw)
           out == EndpointMethod(ep, res)
       IN  /\ result' = [result EXCEPT ![p] = IF out.err = "none" THEN "ok" ELSE "err"]
           /\ hist' = [hist EXCEPT ![p] =
                         [@ EXCEPT !.answered = TRUE, !.data = raw,
                                   !.rtErr = res.err, !.epErr = out.err,
                                   !.Status = out.Status]]
           /\ OauthToken' = AfterEndpoint(OauthToken, out)
           /\ token' = AfterEndpoint(token, out)
    /\ UNCHANGED <<pure, impl, now, issued, ustate, ctor, RefreshToken, kind,
                   ctxCancelled, sentRT, bearer, srvLastRT, lastRefreshed>>

\* The data request carries the caller's context: once that is done the
\* base transport returns its error.
DataAbort(p) ==
    /\ Quiet
    /\ pc[p] = "requesting"
    /\ ctxCancelled[p]
    /\ pc' = [pc EXCEPT ![p] = "done"]
    /\ result' = [result EXCEPT ![p] = "err"]
    /\ UNCHANGED <<pure, impl, now, issued, ustate, ctor, session, kind, ctxCancelled,
                   sentRT, bearer, hist, srvLastRT, lastRefreshed>>

\* The operation has returned to its caller; the goroutine may start another.
Return(p) ==
    /\ pc[p] = "done"
    /\ pc' = [pc EXCEPT ![p] = "idle"]
    /\ kind' = [kind EXCEPT ![p] = "send"]
    /\ ctxCancelled' = [ctxCancelled EXCEPT ![p] = FALSE]
    /\ sentRT' = [sentRT EXCEPT ![p] = EmptyStr]
    /\ bearer' = [bearer EXCEPT ![p] = NilTok]
    /\ result' = [result EXCEPT ![p] = "none"]
    /\ hist' = [hist EXCEPT ![p] = IdleHist]
    /\ UNCHANGED <<pure, impl, now, issued, ustate, ctor, session, srvLastRT, lastRefreshed>>

\* One second passes.
Tick ==
    /\ Quiet
    /\ ustate \in {"constructing", "ready"}
    /\ now < MaxTime
    /\ now' = now + 1
    /\ UNCHANGED <<pure, impl, issued, ustate, ctor, session, procVars, srvLastRT,
                   lastRefreshed>>

ExpiryInputs == {now - 1, now, now + ShortLife, now + LongLife}

Next ==
    \/ NewUserFromRefreshToken
    \/ \E e \in ExpiryInputs : NewUserFromAccessToken(e)
    \/ NewUserFromAuthCode
    \/ \E raw \in TokenRaws(issued) : CtorRespond(raw)
    \/ \E p \in Procs, k \in {"send", "token"} : Begin(p, k)
    \/ \E p \in Procs, raw \in TokenRaws(issued) : RefreshRespond(p, raw)
    \/ \E p \in Procs : Cancel(p)
    \/ \E p \in Procs : RefreshAbort(p)
    \/ \E p \in Procs, ep \in SendEndpoints, raw \in DataRaws : DataRespond(p, ep, raw)
    \/ \E p \in Procs : DataAbort(p)
    \/ \E p \in Procs : Return(p)
    \/ Tick

Spec == Init /\ [][Next]_vars

\* ------------------------------------------ the functions on their own

\* The length of the day AddDate(0, 0, -1) steps back, in seconds.
Day == 86400

\* time.Time.Unix, of a time kept in seconds.
Unix(t) == t

\* time.Time.Format("2006-01-02"): the calendar day the time falls in.
FormatYMD(t) == t \div Day

\* Every answer the network can give to one HTTP exchange.
PureRaws ==
    { Raw(ne, c, rd, js, st, inn, tr) :
        ne \in BOOLEAN, c \in {HttpOK, 500}, rd \in BOOLEAN, js \in BOOLEAN,
        st \in {0, 401}, inn \in {"ok", "bad"},
        tr \in {NoTokResp} \cup
               { TokResp(SrvAT(k), SrvRT(k), e) : k \in 1..MaxIssued, e \in ExpiresInSet } }

PureInit ==
    /\ pure \in { [NoPure EXCEPT !.raw = raw, !.n = n] : raw \in PureRaws, n \in 0..MaxTime }
    /\ MachineInit

\* (*WithingsRoundTripper).RoundTrip(request), the network answering pure.raw.
RoundTrip ==
    /\ pure.op = "none"
    /\ pure' = [pure EXCEPT !.op = "RoundTrip", !.resp = WRoundTrip(pure.raw),
                            !.use = WBodyUse(pure.raw)]
    /\ UNCHANGED machine

\* Client.GenerateAccessToken at time pure.n, the token endpoint answering
\* pure.raw; User.TokenContext runs the same exchange.
GenerateAccessToken ==
    /\ pure.op = "none"
    /\ pure' = [pure EXCEPT !.op = "GenerateAccessToken",
                            !.exch = TokenExchange(pure.raw, pure.n),
                            !.use = ExchangeBodyUse(pure.raw)]
    /\ UNCHANGED machine

\* An endpoint method called with a valid token, the data endpoint
\* answering pure.raw.
CallEndpoint(ep) ==
    /\ pure.op = "none"
    /\ pure' = [pure EXCEPT !.op = "CallEndpoint", !.ep = ep,
                            !.ret = EndpointMethod(ep, UserRoundTrip(pure.raw))]
    /\ UNCHANGED machine

\* GetSleepMeasuresCtx(ctx, nil) at time pure.n: the startdate and enddate
\* parameters of its request.
GetSleepMeasuresCtx ==
    /\ pure.op = "none"
    /\ LET StartDate == pure.n
           EndDate == pure.n - Day
       IN  pure' = [pure EXCEPT !.op = "GetSleepMeasuresCtx",
                                !.startdate = Unix(StartDate),
                                !.enddate = Unix(EndDate)]
    /\ UNCHANGED machine

\* GetSleepSummaryCtx(ctx, nil) at time pure.n: the startdateymd and
\* enddateymd parameters of its request.
GetSleepSummaryCtx ==
    /\ pure.op = "none"
    /\ LET t1 == pure.n
           t2 == pure.n - Day
       IN  pure' = [pure EXCEPT !.op = "GetSleepSummaryCtx",
                                !.startdate = FormatYMD(t1),
                                !.enddate = FormatYMD(t2)]
    /\ UNCHANGED machine

\* A *time.Time parameter field: nil (the empty set) or one time.
OptTimes == {{}} \cup { {t} : t \in 0..MaxTime }

\* The values a parameter field's v.Add puts in the query under the wire
\* name of that field: none when the field tested is nil, else the Unix time
\* of the field the code reads.
QueryValue(tested, read) == IF tested = {} THEN {} ELSE { Unix(t) : t \in read }

\* GetBodyMeasuresCtx(ctx, params) with the given StartDate, EndDate and
\* LastUpdate: the values its query carries under the wire names of those
\* fields. LastUpdate's value is read through params.EndDate, and reading
\* it when EndDate is nil is a nil-pointer dereference.
GetBodyMeasuresCtx(sd, ed, lu) ==
    /\ pure.op = "none"
    /\ pure' = [pure EXCEPT
                  !.op = "GetBodyMeasuresCtx",
                  !.params = [StartDate |-> sd, EndDate |-> ed, LastUpdate |-> lu],
                  !.panic = (lu # {} /\ ed = {}),
                  !.query = IF lu # {} /\ ed = {}
                            THEN @
                            ELSE [StartDate |-> QueryValue(sd, sd),
                                  EndDate |-> QueryValue(ed, ed),
                                  LastUpdate |-> QueryValue(lu, ed)]]
    /\ UNCHANGED machine

\* time.Unix(sec, 0), of a time kept in seconds.
TimeUnix(sec) == sec

\* The Expires values of the Body.Profiles a notification list can carry.
ProfileLists ==
    UNION { [1..k -> 0..MaxTime] : k \in 0..MaxProfiles }

\* The date parsing of ListNotificationsCtx: every profile's ExpiresParsed
\* is set from Profiles[0].Expires.
ParseExpires(profiles) ==
    [i \in 1..Len(profiles) |-> TimeUnix(profiles[1])]

\* ListNotificationsCtx whose response pure.raw passed its checks and
\* carried the given profiles: the ExpiresParsed of the profiles it returns.
ListNotificationsCtx(profiles) ==
    /\ pure.op = "none"
    /\ EndpointMethod("ListNotifications", UserRoundTrip(pure.raw)).err = "none"
    /\ pure' = [pure EXCEPT !.op = "ListNotificationsCtx",
                            !.profiles = profiles,
                            !.parsed = ParseExpires(profiles)]
    /\ UNCHANGED machine

PureNext ==
    \/ RoundTrip
    \/ GenerateAccessToken
    \/ \E ep \in Endpoints : CallEndpoint(ep)
    \/ GetSleepMeasuresCtx
    \/ GetSleepSummaryCtx
    \/ \E sd \in OptTimes, ed \in OptTimes, lu \in OptTimes : GetBodyMeasuresCtx(sd, ed, lu)
    \/ \E profiles \in ProfileLists : ListNotificationsCtx(profiles)

PureSpec == PureInit /\ [][PureNext]_vars

\* ------------------------------------------------------------ properties

IsPrefix(s, t) == Len(s) <= Len(t) /\ \A i \in 1..Len(s) : s[i] = t[i]
Sending(p) == pc[p] # "idle" /\ kind[p] = "send"
Refreshed(p) == Len(hist[p].log) > 0 /\ hist[p].log[1] = "refresh-call"
DataIssued(p) == \E i \in 1..Len(hist[p].log) : hist[p].log[i] = "data-call"

\* C1: a Send that finds the stored token expired (expiry <= now) makes
\* exactly one call to the token endpoint, and that call has returned before
\* the data request is issued.
C1_RefreshOnceBeforeData ==
    \A p \in Procs :
        (Sending(p) /\ hist[p].expiredAtStart) =>
            /\ Refreshed(p)
            /\ IsPrefix(hist[p].log, <<"refresh-call", "refresh-return", "data-call">>)
            /\ (pc[p] = "requesting" => Len(hist[p].log) = 3)
C1_Witness ==
    \E p \in Procs :
        /\ Sending(p) /\ hist[p].expiredAtStart /\ pc[p] = "requesting"
        /\ hist[p].log = <<"refresh-call", "refresh-return", "data-call">>

\* C2 as stated: a Send that finds the stored token unexpired (expiry > now)
\* makes no call to the token endpoint, in either implementation.
C2_Orig ==
    \A p \in Procs : (Sending(p) /\ ~hist[p].expiredAtStart) => ~Refreshed(p)
\* C2 amended: no token endpoint call when the stored token's expiry is later
\* than now (part_003), respectively at least expiryDelta later than now
\* (part_004, whose check is oauth2's Token.Valid).
C2_NoRefreshWhenValid ==
    \A p \in Procs :
        (Sending(p) /\ (IF impl = "oauth" THEN ~hist[p].expiredAtStart
                                            ELSE hist[p].farAtStart)) =>
            hist[p].log = <<"data-call">>
C2_Witness ==
    \E p \in Procs :
        /\ impl = "reuse" /\ Sending(p) /\ hist[p].farAtStart
        /\ pc[p] = "requesting" /\ hist[p].log = <<"data-call">>

\* C3: refreshes of one session are serialized: concurrent Sends that found
\* the token expired never have more than one refresh call in flight.
C3_Orig ==
    Cardinality({p \in Procs : Sending(p) /\ hist[p].expiredAtStart
                                /\ pc[p] = "refreshing"}) <= 1

\* C4: when the token endpoint's answer to a Send's refresh is a failure
\* (network error, non-200, unreadable body, envelope status != 0, malformed
\* JSON), the Send returns an error and issues no data request.
C4_FailedRefreshAbortsSend ==
    \A p \in Procs :
        (Sending(p) /\ hist[p].resp = "bad") =>
            /\ pc[p] = "done" /\ result[p] = "err"
            /\ ~DataIssued(p)
C4_Witness ==
    \E p \in Procs :
        /\ Sending(p) /\ hist[p].resp = "bad" /\ result[p] = "err"
        /\ hist[p].log = <<"refresh-call", "refresh-return">>

\* C5: a refresh that ends without a good answer (failed at any step, or
\* cancelled) leaves the session's access token, refresh token and expiry
\* as they were.
C5_NoPartialCommit ==
    [][\A p \in Procs :
         (pc[p] = "refreshing" /\ pc'[p] # "refreshing" /\ hist'[p].resp # "good")
             => UNCHANGED session]_vars
C5_Witness ==
    \E p \in Procs :
        /\ pc[p] = "done" /\ hist[p].outcome = "aborted" /\ result[p] = "err"
        /\ StoredRT = hist[p].rtAtStart

\* C6: once a Send has refreshed, every later Send that starts before the
\* refreshed token's expiry (here: at least expiryDelta before it, so that
\* the token is valid by either implementation's test) reuses it and makes
\* no token endpoint call.
C6_Orig ==
    \A p \in Procs : (Sending(p) /\ hist[p].freshAtStart) => ~Refreshed(p)

\* C7: every data request carries a token whose expiry is strictly later
\* than the time it was attached.
C7_NoStaleBearer ==
    \A p \in Procs :
        (Sending(p) /\ DataIssued(p)) => bearer[p].expiry > hist[p].attachTime
C7_Witness ==
    \E p \in Procs :
        /\ Sending(p) /\ hist[p].log = <<"data-call">>
        /\ hist[p].attachTime > 0 /\ bearer[p].expiry > hist[p].attachTime

\* C8: when the caller's context is done while a Send's refresh is in
\* flight, the refresh is aborted and the Send returns an error.
C8_Orig ==
    \A p \in Procs :
        (Sending(p) /\ hist[p].cancelledInRefresh /\ pc[p] = "done") =>
            (hist[p].outcome = "aborted" /\ result[p] = "err")

\* C9: NewUserFromAccessToken with tokenExpiry later than now returns the
\* user with the given access token and makes no token endpoint call.
C9_Orig ==
    (ctor.kind = "access" /\ ctor.expiry > ctor.time) =>
        (ctor.calls = 0 /\ ustate = "ready")

\* C10: the session's stored refresh token is the refresh_token of the
\* latest successful token response, and every refresh request sends the
\* refresh token that was the latest one when the request was built.
C10_RotationTracked ==
    /\ ustate = "ready" => StoredRT = srvLastRT
    /\ \A p \in Procs : pc[p] = "refreshing" => sentRT[p] = hist[p].rtAtStart
C10_Witness ==
    \E p \in Procs :
        /\ lastRefreshed # NilTok /\ pc[p] = "refreshing"
        /\ sentRT[p] = lastRefreshed.refresh

\* The number of entries x in a log.
Count(log, x) == Cardinality({i \in 1..Len(log) : log[i] = x})

\* C11: WithingsRoundTripper.RoundTrip, given an HTTP 200 response with a
\* decodable envelope, returns a response whose body is exactly the
\* envelope's inner body when the envelope status is 0, and otherwise no
\* response but an error that carries the envelope status and the whole raw
\* body.
C11_UnwrapOrEnvelopeError ==
    (pure.op = "RoundTrip" /\ ~pure.raw.neterr /\ pure.raw.code = HttpOK
        /\ pure.raw.readable /\ pure.raw.json)
    => IF pure.raw.status = 0
       THEN /\ pure.resp.err = "none"
            /\ pure.resp.code = HttpOK
            /\ pure.resp.body.form = "inner"
            /\ pure.resp.body.readable
            /\ pure.resp.body.inner = pure.raw.inner
            /\ pure.resp.body.tok = pure.raw.tok
       ELSE /\ pure.resp.err = "status"
            /\ pure.resp.errcode = pure.raw.status
            /\ pure.resp.errbody = RawBody(pure.raw)
            /\ pure.resp.body = NoBody
            /\ pure.resp.code = 0

C11_Witness ==
    /\ pure.op = "RoundTrip"
    /\ ~pure.raw.neterr /\ pure.raw.code = HttpOK /\ pure.raw.readable /\ pure.raw.json
    /\ pure.raw.status = 0
    /\ pure.raw.tok.access = SrvAT(1)
    /\ pure.resp.body.form = "inner"

\* C12: a response whose HTTP status is not 200 is returned by
\* WithingsRoundTripper.RoundTrip as it came, its body never decoded as an
\* envelope, and the token exchange then fails with an error carrying the
\* HTTP status code and the body text, returning no token.
C12_Non200PassThrough ==
    (~pure.raw.neterr /\ pure.raw.code # HttpOK)
    => /\ pure.op = "RoundTrip" => pure.resp = Resp(pure.raw.code, RawBody(pure.raw))
       /\ pure.op = "GenerateAccessToken"
          => /\ ~pure.exch.ok
             /\ pure.exch.tok = NilTok
             /\ pure.exch.err = "non-2XX"
             /\ pure.exch.errcode = pure.raw.code
             /\ pure.raw.readable => pure.exch.errbody = RawBody(pure.raw)

C12_Witness ==
    /\ pure.op = "GenerateAccessToken"
    /\ ~pure.raw.neterr /\ pure.raw.code = 500 /\ pure.raw.readable
    /\ pure.raw.json /\ pure.raw.status = 0 /\ pure.raw.inner = "ok"
    /\ pure.exch.errcode = 500
    /\ ~pure.exch.ok

\* C13: every endpoint method returns an error whenever the Status of the
\* response it decoded is not zero: a nil error implies Status = 0.
C13_NilErrorImpliesStatusZero ==
    pure.op = "CallEndpoint" => (pure.ret.err = "none" => pure.ret.Status = 0)

C13_Witness ==
    /\ pure.op = "CallEndpoint"
    /\ pure.ep = "ListNotifications"
    /\ pure.raw.status # 0
    /\ pure.ret.Status = pure.raw.status
    /\ pure.ret.err = "status"

\* C14: no Send retries: it makes at most one call to the token endpoint
\* and issues at most one data request, and when either fails the Send has
\* returned that failure without another attempt.
C14_NoRetries ==
    \A p \in Procs :
        Sending(p) =>
            /\ Count(hist[p].log, "refresh-call") <= 1
            /\ Count(hist[p].log, "data-call") <= 1
            /\ hist[p].outcome = "fail"
               => pc[p] = "done" /\ result[p] = "err" /\ ~DataIssued(p)
            /\ (hist[p].answered /\ hist[p].epErr # "none")
               => pc[p] = "done" /\ result[p] = "err"

C14_Witness ==
    \E p \in Procs :
        /\ Sending(p)
        /\ hist[p].log = <<"refresh-call", "refresh-return", "data-call">>
        /\ hist[p].answered
        /\ hist[p].data.code = 500
        /\ result[p] = "err"

\* C15: a successful token exchange yields a token whose access token,
\* refresh token and token type are the fields of the response and whose
\* expiry is the time of the exchange plus expires_in seconds.
C15_TokenFromResponse ==
    (pure.op = "GenerateAccessToken" /\ pure.exch.ok)
    => /\ pure.exch.tok.access = pure.raw.tok.access
       /\ pure.exch.tok.refresh = pure.raw.tok.refresh
       /\ pure.exch.tok.type = pure.raw.tok.token_type
       /\ pure.exch.tok.expiry = pure.n + pure.raw.tok.expires_in

C15_Witness ==
    /\ pure.op = "GenerateAccessToken"
    /\ pure.exch.ok
    /\ pure.n > 0
    /\ pure.raw.tok.expires_in = LongLife
    /\ pure.exch.tok.access = SrvAT(MaxIssued)
    /\ pure.exch.tok.type = BearerType

\* C16: with nil parameters GetSleepMeasuresCtx and GetSleepSummaryCtx
\* request the last 24 hours: the start is one day before now, the end is
\* now, and the start is not after the end.
C16_Orig ==
    /\ pure.op = "GetSleepMeasuresCtx"
       => /\ pure.startdate = Unix(pure.n - Day)
          /\ pure.enddate = Unix(pure.n)
          /\ pure.startdate <= pure.enddate
    /\ pure.op = "GetSleepSummaryCtx"
       => /\ pure.startdate = FormatYMD(pure.n - Day)
          /\ pure.enddate = FormatYMD(pure.n)
          /\ pure.startdate <= pure.enddate

\* C17: every endpoint method, GetWorkoutsCtx included, returns an error
\* when reading the response body fails.
C17_Orig ==
    (pure.op = "CallEndpoint" /\ ~pure.raw.neterr /\ ~pure.raw.readable)
    => pure.ret.err # "none"

\* C18: in the RefreshToken-holding User (part_004), whenever no operation
\* is running, the RefreshToken field is the refresh token of the token field.
C18_Orig ==
    (impl = "reuse" /\ ustate = "ready" /\ \A p \in Procs : pc[p] = "idle")
    => RefreshToken = token.refresh

\* A data response with HTTP status 200 and a decodable envelope whose
\* status is not 0 has come back to the Send of p.
EnvelopeErrorAnswered(p) ==
    /\ Sending(p)
    /\ hist[p].answered
    /\ ~hist[p].data.neterr /\ hist[p].data.code = HttpOK
    /\ hist[p].data.readable /\ hist[p].data.json
    /\ hist[p].data.status # 0

\* C19 as stated: the data response passes through WithingsRoundTripper
\* before the endpoint method sees it, so an HTTP 200 data response with
\* envelope status != 0 is an error returned by User.RoundTrip.
C19_Orig ==
    \A p \in Procs : EnvelopeErrorAnswered(p) => hist[p].rtErr # "none"

\* C19: a data request is sent with the bearer token attached, and its
\* response comes back from User.RoundTrip as the network transport gave it,
\* without passing through WithingsRoundTripper: an HTTP 200 data response
\* with envelope status != 0 is no error of User.RoundTrip, and surfaces as
\* the error of the endpoint method's own check of the decoded Status.
C19_EnvelopeErrorFromEndpoint ==
    \A p \in Procs :
        /\ hist[p].answered => /\ DataIssued(p)
                               /\ bearer[p] # NilTok
                               /\ hist[p].rtErr = "none" <=> ~hist[p].data.neterr
        /\ EnvelopeErrorAnswered(p)
           => /\ hist[p].rtErr = "none"
              /\ hist[p].epErr \in {"status", "decode"}
              /\ hist[p].data.inner = "ok" => /\ hist[p].epErr = "status"
                                              /\ hist[p].Status = hist[p].data.status
              /\ result[p] = "err"

C19_Witness ==
    \E p \in Procs :
        /\ EnvelopeErrorAnswered(p)
        /\ hist[p].rtErr = "none"
        /\ hist[p].epErr = "status"
        /\ hist[p].Status = 401

\* C20: once the User is constructed, only a successful refresh changes
\* its stored access token, refresh token and expiry: every other step, a
\* Send with a usable token and an endpoint method's handling of its
\* response among them, leaves them as they were.
C20_OnlyRefreshMutates ==
    [][ (ustate = "ready" /\ session' # session)
        => \E p \in Procs : /\ pc[p] = "refreshing"
                            /\ hist'[p].outcome = "ok"
                            /\ hist'[p].resp = "good" ]_vars

C20_Witness ==
    \E p \in Procs :
        /\ Sending(p)
        /\ hist[p].log = <<"data-call">>
        /\ hist[p].answered
        /\ hist[p].epErr = "status"
        /\ StoredToken # NilTok
        /\ StoredToken.expiry > now


\* C21 as stated: WithingsRoundTripper.RoundTrip reads the original body
\* at most once and has closed it on every path on which it returns with a
\* response from the network, the non-200 path included.
C21_Orig ==
    (pure.op = "RoundTrip" /\ ~pure.raw.neterr)
    => pure.use.reads <= 1 /\ pure.use.closed

\* C21: WithingsRoundTripper.RoundTrip reads the original body at most
\* once; on every path after its check of the HTTP status (success, failed
\* read, failed parse, non-zero envelope status) it has read it once and
\* closed it; a non-200 response it returns unread and open, and the token
\* exchange that called it reads that body once and closes it.
C21_ClosedOnceRead ==
    ~pure.raw.neterr
    => /\ pure.op = "RoundTrip"
          => /\ pure.use.reads <= 1
             /\ pure.raw.code = HttpOK => pure.use = BodyUse(1, TRUE)
             /\ pure.raw.code # HttpOK => pure.use = BodyUse(0, FALSE)
       /\ pure.op = "GenerateAccessToken" => pure.use = BodyUse(1, TRUE)

C21_Witness ==
    /\ pure.op = "RoundTrip"
    /\ ~pure.raw.neterr /\ pure.raw.code = HttpOK
    /\ pure.raw.readable /\ ~pure.raw.json
    /\ pure.resp.err = "decode"
    /\ pure.use.closed

\* C22: in GetBodyMeasuresCtx every non-nil one of StartDate, EndDate and
\* LastUpdate puts its own Unix time in the query under its own wire name,
\* and a nil one puts nothing there; in particular lastupdate is the Unix
\* time of LastUpdate, whatever the other two are.
C22_Orig ==
    pure.op = "GetBodyMeasuresCtx"
    => /\ ~pure.panic
       /\ pure.query.StartDate = { Unix(t) : t \in pure.params.StartDate }
       /\ pure.query.EndDate = { Unix(t) : t \in pure.params.EndDate }
       /\ pure.query.LastUpdate = { Unix(t) : t \in pure.params.LastUpdate }

\* C23: a session never presents a refresh token the server has already
\* rotated: every refresh request in flight carries the refresh token of the
\* session's latest successful exchange, and no two refresh requests in
\* flight carry the same refresh token.
C23_Orig ==
    \A p \in Procs :
        pc[p] = "refreshing"
        => /\ sentRT[p] = srvLastRT
           /\ \A q \in Procs \ {p} : pc[q] = "refreshing" => sentRT[q] # sentRT[p]

C25_Orig ==
    pure.op = "ListNotificationsCtx"
    => /\ Len(pure.parsed) = Len(pure.profiles)
       /\ \A i \in 1..Len(pure.profiles) : pure.parsed[i] = TimeUnix(pure.profiles[i])

====
